---- MODULE Spec2Model ----
(***************************************************************************)
(* Model of Generate-Diagram.  The server: the storage contract IStorage   *)
(* with its two implementations (MemStorage, DbStorage), the storage       *)
(* selector, the table schema with its zod insert schemas, and the Express *)
(* request handlers that drive storage.  The client: the state and the     *)
(* event handlers of the pages project-detail and diagram-generator, with  *)
(* their calls to the rendering service and to the server in flight.       *)
(*                                                                         *)
(* JSON values are tagged (Str, Num, Null) so that a payload can carry a   *)
(* value of the wrong type.  A JSON object is a function from its keys to  *)
(* JSON values.  A Date is the number read from the clock.                 *)
(***************************************************************************)
EXTENDS Integers, Sequences, FiniteSets, TLC

\* Bound of the model: how many create calls (projects plus diagrams) a run makes.
MaxCreates == 2

VARIABLES
    backend,          \* which IStorage implementation createStorage() chose
    idColumn,         \* DDL of the id columns in the database DbStorage talks to
    dbReachable,      \* whether the pool of server/db.ts reaches the database
    projects,         \* MemStorage.projects / table "projects": id -> Project
    diagrams,         \* MemStorage.diagrams / table "diagrams": id -> Diagram
    nextProjectId,    \* MemStorage.nextProjectId / sequence of projects.id
    nextDiagramId,    \* MemStorage.nextDiagramId / sequence of diagrams.id
    now,              \* the latest value new Date() / now() has returned
    req,              \* the request the server handled last
    res,              \* the response it sent
    projectIdsIssued, \* ids createProject has returned, in call order
    diagramIdsIssued, \* ids createDiagram has returned, in call order
    deleting,         \* DbStorage.deleteProject calls between their two queries
    page,             \* the page that is mounted
    diagramType,      \* useState of the page, as are the next nine
    format,
    code,
    diagramName,
    isEditing,
    generatedImage,
    isGenerating,
    zoom,
    selectedDiagram,
    diagramsData,     \* data of the useQuery for the diagrams of the project
    toast,            \* the toast the last step of the page raised
    objectURLs,       \* blob URLs created and not revoked
    rendersIssued,    \* calls the page has made to the rendering service
    saveMutation,     \* the mutation saveMutation observes, 0 when none
    updateMutation,   \* the mutation updateMutation observes, 0 when none
    inflight          \* calls of the page that have not settled

\* The variables of the server
serverVars == <<backend, idColumn, dbReachable, projects, diagrams, nextProjectId,
                nextDiagramId, now, req, res, projectIdsIssued, diagramIdsIssued>>

\* The state of the mounted page
pageVars == <<page, diagramType, format, code, diagramName, isEditing,
              generatedImage, isGenerating, zoom, selectedDiagram, diagramsData,
              toast, objectURLs, rendersIssued, saveMutation, updateMutation>>

vars == <<serverVars, deleting, pageVars, inflight>>

-----------------------------------------------------------------------------
(* JSON values and objects *)

Str(s) == [t |-> "string", s |-> s]
Num(n) == [t |-> "number", n |-> n]
Null == [t |-> "null"]

EmptyObj == [k \in {} |-> Null]

\* { ...a, ...b }
Spread(a, b) ==
    [k \in (DOMAIN a) \cup (DOMAIN b) |-> IF k \in DOMAIN b THEN b[k] ELSE a[k]]

\* Map.delete / DELETE FROM ... WHERE id IN ids
Without(f, ids) == [k \in (DOMAIN f) \ ids |-> f[k]]

\* Map.set / row insert or replace
With(f, id, rec) == [k \in (DOMAIN f) \cup {id} |-> IF k = id THEN rec ELSE f[k]]

-----------------------------------------------------------------------------
(* shared/schema.ts: tables and insert schemas *)

\* createInsertSchema(projects).omit({id, createdAt})
insertProjectSchema ==
    [name        |-> [type |-> "string", nullable |-> FALSE, optional |-> FALSE],
     description |-> [type |-> "string", nullable |-> TRUE,  optional |-> TRUE]]

\* createInsertSchema(diagrams).omit({id, createdAt})
insertDiagramSchema ==
    [projectId   |-> [type |-> "number", nullable |-> FALSE, optional |-> FALSE],
     name        |-> [type |-> "string", nullable |-> FALSE, optional |-> FALSE],
     diagramType |-> [type |-> "string", nullable |-> FALSE, optional |-> FALSE],
     format      |-> [type |-> "string", nullable |-> FALSE, optional |-> FALSE],
     code        |-> [type |-> "string", nullable |-> FALSE, optional |-> FALSE],
     imageData   |-> [type |-> "string", nullable |-> FALSE, optional |-> FALSE]]

\* One field of a zod object schema accepts a value.
FieldAccepts(field, v) == v.t = field.type \/ (field.nullable /\ v.t = "null")

\* schema.parse(body) and schema.partial().parse(body): every key of the schema
\* that is present must have the field's type, every required key must be
\* present unless the schema is partial, and unknown keys are stripped.
ZodParse(schema, body, partial) ==
    [ok   |-> \A k \in DOMAIN schema :
                  IF k \in DOMAIN body
                  THEN FieldAccepts(schema[k], body[k])
                  ELSE partial \/ schema[k].optional,
     data |-> [k \in (DOMAIN body) \cap (DOMAIN schema) |-> body[k]]]

-----------------------------------------------------------------------------
(* Results of one storage call *)

Value(v) == [k |-> "value", v |-> v]
Undefined == [k |-> "undefined"]
Throw(why) == [k |-> "throw", why |-> why]

\* The storage state a call leaves, and what the call returned.
Outcome(ps, ds, np, nd, t, r) ==
    [projects |-> ps, diagrams |-> ds, nextProjectId |-> np,
     nextDiagramId |-> nd, now |-> t, ret |-> r]

\* A call that only reads.
Reads(r) == Outcome(projects, diagrams, nextProjectId, nextDiagramId, now, r)

\* new Date() / now(): the clock has not moved since the last reading, or it has.
ClockReadings == {now, now + 1}

-----------------------------------------------------------------------------
(* server/storage.ts: MemStorage *)

\* Array.from(map.values()): a Map iterates in insertion order, and every key
\* is inserted once, with an id larger than all before it.
RECURSIVE MapValues(_)
MapValues(f) ==
    IF DOMAIN f = {} THEN <<>>
    ELSE LET k == CHOOSE i \in DOMAIN f : \A j \in DOMAIN f : i <= j
         IN  <<f[k]>> \o MapValues(Without(f, {k}))

\* array.filter(pred) for the predicate d.projectId === projectId
RECURSIVE FilterByProject(_, _)
FilterByProject(seq, projectId) ==
    IF seq = <<>> THEN <<>>
    ELSE IF Head(seq).projectId = Num(projectId)
         THEN <<Head(seq)>> \o FilterByProject(Tail(seq), projectId)
         ELSE FilterByProject(Tail(seq), projectId)

\* The comparator with its operands swapped.
Mutant_oldestFirst(a, b) == a.createdAt - b.createdAt

\* The comparator (a, b) => b.createdAt.getTime() - a.createdAt.getTime()
NewestFirst(a, b) == b.createdAt - a.createdAt

\* Array.prototype.sort with that comparator: a stable sort.
RECURSIVE SortInsert(_, _)
SortInsert(sorted, x) ==
    IF sorted = <<>> THEN <<x>>
    ELSE IF NewestFirst(Head(sorted), x) <= 0
         THEN <<Head(sorted)>> \o SortInsert(Tail(sorted), x)
         ELSE <<x>> \o sorted

RECURSIVE ArraySort(_)
ArraySort(seq) ==
    IF seq = <<>> THEN <<>>
    ELSE SortInsert(ArraySort(SubSeq(seq, 1, Len(seq) - 1)), seq[Len(seq)])

MemStorage_getAllProjects == {Reads(Value(ArraySort(MapValues(projects))))}

MemStorage_getProject(id) ==
    {Reads(IF id \in DOMAIN projects THEN Value(projects[id]) ELSE Undefined)}

\* createProject that takes the id from the size of the map.
Mutant_createProject_idFromSize(insertProject) ==
    { LET id == Cardinality(DOMAIN projects) + 1
          project == Spread(insertProject,
                            [description |-> IF "description" \in DOMAIN insertProject
                                             THEN insertProject.description ELSE Null,
                             id |-> id,
                             createdAt |-> t])
      IN  Outcome(With(projects, id, project), diagrams, nextProjectId + 1,
                  nextDiagramId, t, Value(project))
      : t \in ClockReadings }

MemStorage_createProject(insertProject) ==
    { LET id == nextProjectId
          project == Spread(insertProject,
                            [description |-> IF "description" \in DOMAIN insertProject
                                             THEN insertProject.description ELSE Null,
                             id |-> id,
                             createdAt |-> t])
      IN  Outcome(With(projects, id, project), diagrams, nextProjectId + 1,
                  nextDiagramId, t, Value(project))
      : t \in ClockReadings }

MemStorage_updateProject(id, updates) ==
    IF id \notin DOMAIN projects THEN {Reads(Undefined)}
    ELSE LET updated == Spread(projects[id], updates)
         IN  {Outcome(With(projects, id, updated), diagrams, nextProjectId,
                      nextDiagramId, now, Value(updated))}

\* deleteProject whose cascade clears the diagrams of every project.
Mutant_deleteProject_clearsDiagrams(id) ==
    LET deleted == id \in DOMAIN projects
    IN  {Outcome(Without(projects, {id}),
                 IF deleted THEN EmptyObj ELSE diagrams,
                 nextProjectId, nextDiagramId, now, Value(deleted))}

\* deleteProject that forgets the diagrams of the project.
Mutant_deleteProject_noCascade(id) ==
    {Outcome(Without(projects, {id}), diagrams, nextProjectId, nextDiagramId,
             now, Value(id \in DOMAIN projects))}

MemStorage_deleteProject(id) ==
    LET deleted == id \in DOMAIN projects
        owned == {d \in DOMAIN diagrams : diagrams[d].projectId = Num(id)}
    IN  {Outcome(Without(projects, {id}),
                 IF deleted THEN Without(diagrams, owned) ELSE diagrams,
                 nextProjectId, nextDiagramId, now, Value(deleted))}

MemStorage_getDiagramsByProject(projectId) ==
    {Reads(Value(ArraySort(FilterByProject(MapValues(diagrams), projectId))))}

MemStorage_getDiagram(id) ==
    {Reads(IF id \in DOMAIN diagrams THEN Value(diagrams[id]) ELSE Undefined)}

MemStorage_createDiagram(insertDiagram) ==
    { LET id == nextDiagramId
          diagram == Spread(insertDiagram, [id |-> id, createdAt |-> t])
      IN  Outcome(projects, With(diagrams, id, diagram), nextProjectId,
                  nextDiagramId + 1, t, Value(diagram))
      : t \in ClockReadings }

MemStorage_updateDiagram(id, updates) ==
    IF id \notin DOMAIN diagrams THEN {Reads(Undefined)}
    ELSE LET updated == Spread(diagrams[id], updates)
         IN  {Outcome(projects, With(diagrams, id, updated), nextProjectId,
                      nextDiagramId, now, Value(updated))}

MemStorage_deleteDiagram(id) ==
    {Outcome(projects, Without(diagrams, {id}), nextProjectId, nextDiagramId,
             now, Value(id \in DOMAIN diagrams))}

-----------------------------------------------------------------------------
(* server/storage.ts: DbStorage, over the tables of shared/schema.ts *)

\* SELECT ... ORDER BY created_at DESC: every order of the rows that is
\* descending in createdAt; the engine is free in the order of equal rows.
OrderByCreatedAtDesc(rows) ==
    LET n == Cardinality(rows)
    IN  { s \in [1..n -> rows] :
            /\ \A i, j \in 1..n : i # j => s[i] # s[j]
            /\ \A i \in 1..n : \A j \in i..n : s[i].createdAt >= s[j].createdAt }

Rows(table) == {table[k] : k \in DOMAIN table}

\* INSERT without a value for id.  The schema declares id as
\* integer("id").primaryKey(): NOT NULL and no default, so the row is rejected.
\* The database guide of the repository declares the column serial: then the
\* sequence supplies the id.
InsertRaises == idColumn = "integer"

DbStorage_getAllProjects ==
    {Reads(Value(s)) : s \in OrderByCreatedAtDesc(Rows(projects))}

DbStorage_getProject(id) ==
    {Reads(IF id \in DOMAIN projects THEN Value(projects[id]) ELSE Undefined)}

DbStorage_createProject(insertProject) ==
    IF InsertRaises THEN {Reads(Throw("not-null violation"))}
    ELSE { LET id == nextProjectId
               row == [id |-> id,
                       name |-> insertProject.name,
                       description |-> IF "description" \in DOMAIN insertProject
                                       THEN insertProject.description ELSE Null,
                       createdAt |-> t]
           IN  Outcome(With(projects, id, row), diagrams, nextProjectId + 1,
                       nextDiagramId, t, Value(row))
           : t \in ClockReadings }

\* UPDATE ... SET: drizzle rejects an update that sets no column.
DbStorage_updateProject(id, updates) ==
    IF DOMAIN updates = {} THEN {Reads(Throw("No values to set"))}
    ELSE IF id \notin DOMAIN projects THEN {Reads(Undefined)}
    ELSE LET row == Spread(projects[id], updates)
         IN  {Outcome(With(projects, id, row), diagrams, nextProjectId,
                      nextDiagramId, now, Value(row))}

DbStorage_deleteProject(id) ==
    LET owned == {d \in DOMAIN diagrams : diagrams[d].projectId = Num(id)}
        afterDiagrams == Without(diagrams, owned)
        result == IF id \in DOMAIN projects THEN <<projects[id]>> ELSE <<>>
    IN  {Outcome(Without(projects, {id}), afterDiagrams, nextProjectId,
                 nextDiagramId, now, Value(Len(result) > 0))}

DbStorage_getDiagramsByProject(projectId) ==
    {Reads(Value(s)) : s \in OrderByCreatedAtDesc(
        {d \in Rows(diagrams) : d.projectId = Num(projectId)})}

DbStorage_getDiagram(id) ==
    {Reads(IF id \in DOMAIN diagrams THEN Value(diagrams[id]) ELSE Undefined)}

DbStorage_createDiagram(insertDiagram) ==
    IF InsertRaises THEN {Reads(Throw("not-null violation"))}
    ELSE { LET id == nextDiagramId
               row == Spread(insertDiagram, [id |-> id, createdAt |-> t])
           IN  Outcome(projects, With(diagrams, id, row), nextProjectId,
                       nextDiagramId + 1, t, Value(row))
           : t \in ClockReadings }

DbStorage_updateDiagram(id, updates) ==
    IF DOMAIN updates = {} THEN {Reads(Throw("No values to set"))}
    ELSE IF id \notin DOMAIN diagrams THEN {Reads(Undefined)}
    ELSE LET row == Spread(diagrams[id], updates)
         IN  {Outcome(projects, With(diagrams, id, row), nextProjectId,
                      nextDiagramId, now, Value(row))}

DbStorage_deleteDiagram(id) ==
    LET result == IF id \in DOMAIN diagrams THEN <<diagrams[id]>> ELSE <<>>
    IN  {Outcome(projects, Without(diagrams, {id}), nextProjectId,
                 nextDiagramId, now, Value(Len(result) > 0))}

-----------------------------------------------------------------------------
(* server/storage.ts: the storage singleton the handlers call *)

\* server/db.ts: every query of DbStorage goes through the pool.  When the
\* pool cannot reach the database the awaited query rejects, and the storage
\* method, which catches nothing, rejects with it.
pool_query(outcomes) ==
    IF dbReachable THEN outcomes ELSE {Reads(Throw("connection refused"))}

storage_getAllProjects ==
    IF backend = "mem" THEN MemStorage_getAllProjects
    ELSE pool_query(DbStorage_getAllProjects)
storage_getProject(id) ==
    IF backend = "mem" THEN MemStorage_getProject(id)
    ELSE pool_query(DbStorage_getProject(id))
storage_createProject(data) ==
    IF backend = "mem" THEN MemStorage_createProject(data)
    ELSE pool_query(DbStorage_createProject(data))
storage_updateProject(id, data) ==
    IF backend = "mem" THEN MemStorage_updateProject(id, data)
    ELSE pool_query(DbStorage_updateProject(id, data))
storage_deleteProject(id) ==
    IF backend = "mem" THEN MemStorage_deleteProject(id)
    ELSE pool_query(DbStorage_deleteProject(id))
storage_getDiagramsByProject(projectId) ==
    IF backend = "mem" THEN MemStorage_getDiagramsByProject(projectId)
    ELSE pool_query(DbStorage_getDiagramsByProject(projectId))
storage_getDiagram(id) ==
    IF backend = "mem" THEN MemStorage_getDiagram(id)
    ELSE pool_query(DbStorage_getDiagram(id))
storage_createDiagram(data) ==
    IF backend = "mem" THEN MemStorage_createDiagram(data)
    ELSE pool_query(DbStorage_createDiagram(data))
storage_updateDiagram(id, data) ==
    IF backend = "mem" THEN MemStorage_updateDiagram(id, data)
    ELSE pool_query(DbStorage_updateDiagram(id, data))
storage_deleteDiagram(id) ==
    IF backend = "mem" THEN MemStorage_deleteDiagram(id)
    ELSE pool_query(DbStorage_deleteDiagram(id))

-----------------------------------------------------------------------------
(* server/routes.ts: the request handlers *)

Request(method, path, id, body) ==
    [method |-> method, path |-> path, id |-> id, body |-> body]

Response(status, body) == [status |-> status, body |-> body]

Error(message) == [error |-> Str(message)]

\* The handler leaves storage as the outcome o of its storage call says, and
\* answers.
Answer(o, request, response) ==
    /\ projects' = o.projects
    /\ diagrams' = o.diagrams
    /\ nextProjectId' = o.nextProjectId
    /\ nextDiagramId' = o.nextDiagramId
    /\ now' = o.now
    /\ req' = request
    /\ res' = response
    /\ UNCHANGED <<backend, idColumn, dbReachable, deleting, pageVars>>

\* The handler answers without a storage call.
AnswerOnly(request, response) == Answer(Reads(Undefined), request, response)

\* The model follows a run up to MaxCreates created records.
WithinBound(o) == (o.nextProjectId - 1) + (o.nextDiagramId - 1) <= MaxCreates

\* The ids a request names: those a run can assign, so that both stored and
\* absent ids are asked for.
RequestIds == 1..MaxCreates

\* Payloads of POST /api/projects: two well-formed ones (description omitted,
\* description given), one without name, one with a name that is no string.
ProjectBodies ==
    { [name |-> Str("Demo")],
      [name |-> Str("Demo"), description |-> Str("x")],
      [description |-> Str("x")],
      [name |-> Num(1)] }

\* Payloads of PATCH /api/projects/:id: a description next to a key the schema
\* does not know, the empty object, and a malformed one.
ProjectPatches ==
    { [id |-> Num(9), description |-> Str("x")],
      EmptyObj,
      [name |-> Num(1)] }

DiagramBody(projectId) ==
    [projectId |-> projectId, name |-> Str("Flow"), diagramType |-> Str("mermaid"),
     format |-> Str("svg"), code |-> Str("sequenceDiagram"),
     imageData |-> Str("data:1")]

\* Payloads of POST /api/diagrams: well-formed ones for two project ids, one
\* whose projectId is a string, one without imageData.
DiagramBodies ==
    { DiagramBody(Num(1)),
      DiagramBody(Num(2)),
      DiagramBody(Str("1")),
      [projectId |-> Num(1), name |-> Str("Flow"), diagramType |-> Str("mermaid"),
       format |-> Str("svg"), code |-> Str("sequenceDiagram")] }

\* Payloads of PATCH /api/diagrams/:id: new code, another project, the empty
\* object, and a malformed one.
DiagramPatches ==
    { [code |-> Str("new code")],
      [projectId |-> Num(2)],
      EmptyObj,
      [code |-> Num(1)] }

GET_api_projects ==
    LET request == Request("GET", "/api/projects", 0, EmptyObj)
    IN  \E o \in storage_getAllProjects :
            /\ IF o.ret.k = "throw"
               THEN Answer(o, request, Response(500, Error("Failed to fetch projects")))
               ELSE Answer(o, request, Response(200, o.ret.v))
            /\ UNCHANGED <<projectIdsIssued, diagramIdsIssued>>

GET_api_projects_id(id) ==
    LET request == Request("GET", "/api/projects/:id", id, EmptyObj)
    IN  \E o \in storage_getProject(id) :
            /\ CASE o.ret.k = "throw" ->
                      Answer(o, request, Response(500, Error("Failed to fetch project")))
                 [] o.ret.k = "undefined" ->
                      Answer(o, request, Response(404, Error("Project not found")))
                 [] OTHER ->
                      Answer(o, request, Response(200, o.ret.v))
            /\ UNCHANGED <<projectIdsIssued, diagramIdsIssued>>

POST_api_projects(body) ==
    LET request == Request("POST", "/api/projects", 0, body)
        parsed == ZodParse(insertProjectSchema, body, FALSE)
    IN  IF ~parsed.ok
        THEN /\ AnswerOnly(request, Response(400, Error("Invalid project data")))
             /\ UNCHANGED <<projectIdsIssued, diagramIdsIssued>>
        ELSE \E o \in storage_createProject(parsed.data) :
                /\ WithinBound(o)
                /\ IF o.ret.k = "throw"
                   THEN /\ Answer(o, request, Response(400, Error("Invalid project data")))
                        /\ UNCHANGED projectIdsIssued
                   ELSE /\ Answer(o, request, Response(201, o.ret.v))
                        /\ projectIdsIssued' = Append(projectIdsIssued, o.ret.v.id)
                /\ UNCHANGED diagramIdsIssued

PATCH_api_projects_id(id, body) ==
    LET request == Request("PATCH", "/api/projects/:id", id, body)
        parsed == ZodParse(insertProjectSchema, body, TRUE)
    IN  /\ IF ~parsed.ok
           THEN AnswerOnly(request, Response(400, Error("Invalid project data")))
           ELSE \E o \in storage_updateProject(id, parsed.data) :
                   CASE o.ret.k = "throw" ->
                          Answer(o, request, Response(400, Error("Invalid project data")))
                     [] o.ret.k = "undefined" ->
                          Answer(o, request, Response(404, Error("Project not found")))
                     [] OTHER ->
                          Answer(o, request, Response(200, o.ret.v))
        /\ UNCHANGED <<projectIdsIssued, diagramIdsIssued>>

DELETE_api_projects_id(id) ==
    LET request == Request("DELETE", "/api/projects/:id", id, EmptyObj)
    IN  \E o \in storage_deleteProject(id) :
            /\ CASE o.ret.k = "throw" ->
                      Answer(o, request, Response(500, Error("Failed to delete project")))
                 [] o.ret.k = "value" /\ ~o.ret.v ->
                      Answer(o, request, Response(404, Error("Project not found")))
                 [] OTHER ->
                      Answer(o, request, Response(204, EmptyObj))
            /\ UNCHANGED <<projectIdsIssued, diagramIdsIssued>>

GET_api_projects_projectId_diagrams(projectId) ==
    LET request == Request("GET", "/api/projects/:projectId/diagrams", projectId, EmptyObj)
    IN  \E o \in storage_getDiagramsByProject(projectId) :
            /\ IF o.ret.k = "throw"
               THEN Answer(o, request, Response(500, Error("Failed to fetch diagrams")))
               ELSE Answer(o, request, Response(200, o.ret.v))
            /\ UNCHANGED <<projectIdsIssued, diagramIdsIssued>>

GET_api_diagrams_id(id) ==
    LET request == Request("GET", "/api/diagrams/:id", id, EmptyObj)
    IN  \E o \in storage_getDiagram(id) :
            /\ CASE o.ret.k = "throw" ->
                      Answer(o, request, Response(500, Error("Failed to fetch diagram")))
                 [] o.ret.k = "undefined" ->
                      Answer(o, request, Response(404, Error("Diagram not found")))
                 [] OTHER ->
                      Answer(o, request, Response(200, o.ret.v))
            /\ UNCHANGED <<projectIdsIssued, diagramIdsIssued>>

POST_api_diagrams(body) ==
    LET request == Request("POST", "/api/diagrams", 0, body)
        parsed == ZodParse(insertDiagramSchema, body, FALSE)
    IN  IF ~parsed.ok
        THEN /\ AnswerOnly(request, Response(400, Error("Invalid diagram data")))
             /\ UNCHANGED <<projectIdsIssued, diagramIdsIssued>>
        ELSE \E o \in storage_createDiagram(parsed.data) :
                /\ WithinBound(o)
                /\ IF o.ret.k = "throw"
                   THEN /\ Answer(o, request, Response(400, Error("Invalid diagram data")))
                        /\ UNCHANGED diagramIdsIssued
                   ELSE /\ Answer(o, request, Response(201, o.ret.v))
                        /\ diagramIdsIssued' = Append(diagramIdsIssued, o.ret.v.id)
                /\ UNCHANGED projectIdsIssued

\* The handler that updates storage before it looks at the result of parse.
Mutant_PATCH_diagram_validatesLate(id, body) ==
    LET request == Request("PATCH", "/api/diagrams/:id", id, body)
        parsed == ZodParse(insertDiagramSchema, body, TRUE)
    IN  /\ \E o \in storage_updateDiagram(id, parsed.data) :
               CASE ~parsed.ok \/ o.ret.k = "throw" ->
                      Answer(o, request, Response(400, Error("Invalid diagram data")))
                 [] o.ret.k = "undefined" ->
                      Answer(o, request, Response(404, Error("Diagram not found")))
                 [] OTHER ->
                      Answer(o, request, Response(200, o.ret.v))
        /\ UNCHANGED <<projectIdsIssued, diagramIdsIssued>>

PATCH_api_diagrams_id(id, body) ==
    LET request == Request("PATCH", "/api/diagrams/:id", id, body)
        parsed == ZodParse(insertDiagramSchema, body, TRUE)
    IN  /\ IF ~parsed.ok
           THEN AnswerOnly(request, Response(400, Error("Invalid diagram data")))
           ELSE \E o \in storage_updateDiagram(id, parsed.data) :
                   CASE o.ret.k = "throw" ->
                          Answer(o, request, Response(400, Error("Invalid diagram data")))
                     [] o.ret.k = "undefined" ->
                          Answer(o, request, Response(404, Error("Diagram not found")))
                     [] OTHER ->
                          Answer(o, request, Response(200, o.ret.v))
        /\ UNCHANGED <<projectIdsIssued, diagramIdsIssued>>

DELETE_api_diagrams_id(id) ==
    LET request == Request("DELETE", "/api/diagrams/:id", id, EmptyObj)
    IN  \E o \in storage_deleteDiagram(id) :
            /\ CASE o.ret.k = "throw" ->
                      Answer(o, request, Response(500, Error("Failed to delete diagram")))
                 [] o.ret.k = "value" /\ ~o.ret.v ->
                      Answer(o, request, Response(404, Error("Diagram not found")))
                 [] OTHER ->
                      Answer(o, request, Response(204, EmptyObj))
            /\ UNCHANGED <<projectIdsIssued, diagramIdsIssued>>

-----------------------------------------------------------------------------
(* client/src/pages/project-detail.tsx and diagram-generator.tsx: values *)

\* Bounds of the page model: the calls a page makes to the rendering service
\* in a run, and the calls it has in flight at a time; and the same two for
\* the runs in which calls of the page race each other.
MaxRenders == 1
MaxInFlight == 1
RacingRenders == 2
RacingInFlight == 2

\* parseInt(params.id): the project the page project-detail is opened for.
projectId == 1

diagramTypes == {"mermaid", "graphviz", "bpmn", "excalidraw"}

formatTypes == {"svg", "png"}

\* The example texts, each by its first line.
defaultExamples ==
    [mermaid    |-> Str("sequenceDiagram ..."),
     graphviz   |-> Str("digraph G { ... }"),
     bpmn       |-> Str("<?xml version=1.0 ...>"),
     excalidraw |-> Str("{ type: rectangle ... }")]

\* String.prototype.trim on the texts of the model: a text of white space
\* only becomes the empty text, every other text of the model has no white
\* space at either end.
trim(v) == IF v.s \in {"", " "} THEN "" ELSE v.s

\* !v for a value that is null or a string
Falsy(v) == v = Null \/ v = Str("")

\* URL.createObjectURL(blob) for the blob the n-th render call returned: a
\* URL of its own for every blob.
createObjectURL(n) == [t |-> "string", url |-> "blob:", n |-> n]

\* reader.readAsDataURL(blob): the data URI that encodes the blob.
readAsDataURL(n) == [t |-> "string", url |-> "data:", n |-> n]

\* v && v.startsWith('blob:')
startsWith_blob(v) == "url" \in DOMAIN v /\ v.url = "blob:"

\* fetch(url).then(r => r.blob()) and readAsDataURL of the result: the data
\* URI of the blob a blob URL names, and a data URI itself.
fetch_readAsDataURL(v) == readAsDataURL(v.n)

\* URL.revokeObjectURL(v), guarded as the handlers guard it
revokeIfBlob(urls, v) == IF startsWith_blob(v) THEN urls \ {v} ELSE urls

\* JSON.stringify on the server and res.json() on the page: a Date arrives as
\* its ISO string, every other field as it is.
IsoString(t) == [t |-> "string", iso |-> t]
json(record) ==
    [k \in DOMAIN record |->
        IF k = "createdAt" THEN IsoString(record[k]) ELSE record[k]]
jsonList(seq) == [i \in 1..Len(seq) |-> json(seq[i])]

Toast(title, description) == [title |-> title, description |-> description]
NoToast == Toast("", "")

\* apiRequest throws unless the response is ok (status 200..299).
res_ok(response) == response.status >= 200 /\ response.status <= 299

\* The calls of the page that have not settled are numbered; a new call takes
\* the smallest number that is free.
FreeSlot(calls) ==
    CHOOSE i \in 1..(Cardinality(DOMAIN calls) + 1) :
        /\ i \notin DOMAIN calls
        /\ \A j \in 1..(Cardinality(DOMAIN calls) + 1) : j \notin DOMAIN calls => i <= j
Send(call) == inflight' = With(inflight, FreeSlot(inflight), call)
Settle(m) == inflight' = Without(inflight, {m})

\* queryClient.invalidateQueries for the diagrams of the project, in the
\* callback of the mutation m, which has settled: the query fetches again; a
\* fetch of it that is in flight is cancelled and its answer dropped.
invalidateQueries(m) ==
    LET queries == {q \in DOMAIN inflight : inflight[q].kind = "query"}
        others == Without(inflight, queries \cup {m})
    IN  inflight' = With(others, FreeSlot(others), [kind |-> "query", stage |-> "sent"])

\* The calls in flight to the rendering service
Renders == {m \in DOMAIN inflight : inflight[m].kind = "render"}

\* The cards of the sidebar: shown when the query has data and no error.
Cards ==
    IF diagramsData.isError \/ diagramsData.data = Undefined THEN {}
    ELSE {diagramsData.data.v[i] : i \in 1..Len(diagramsData.data.v)}

-----------------------------------------------------------------------------
(* project-detail.tsx: the event handlers and the continuations of their    *)
(* awaited calls.  A handler runs when its control is rendered and enabled; *)
(* a continuation sees the state of the render in which its handler ran.    *)

\* handleDiagramTypeChange without its setGeneratedImage(null)
Mutant_handleDiagramTypeChange_keepsPreview(type) ==
    /\ page = "project-detail"
    /\ diagramType' = Str(type)
    /\ code' = defaultExamples[type]
    /\ toast' = NoToast
    /\ UNCHANGED <<page, format, diagramName, isEditing, generatedImage,
                   isGenerating, zoom, selectedDiagram, diagramsData, objectURLs,
                   rendersIssued, saveMutation, updateMutation, inflight,
                   serverVars, deleting>>

handleDiagramTypeChange(type) ==
    /\ page = "project-detail"
    /\ objectURLs' = revokeIfBlob(objectURLs, generatedImage)
    /\ diagramType' = Str(type)
    /\ code' = defaultExamples[type]
    /\ generatedImage' = Null
    /\ toast' = NoToast
    /\ UNCHANGED <<page, format, diagramName, isEditing, isGenerating, zoom,
                   selectedDiagram, diagramsData, rendersIssued, saveMutation,
                   updateMutation, inflight, serverVars, deleting>>

\* onClick={() => setFormat(fmt.value)}, on both pages
setFormat(fmt) ==
    /\ page \in {"project-detail", "diagram-generator"}
    /\ format' = Str(fmt)
    /\ toast' = NoToast
    /\ UNCHANGED <<page, diagramType, code, diagramName, isEditing, generatedImage,
                   isGenerating, zoom, selectedDiagram, diagramsData, objectURLs,
                   rendersIssued, saveMutation, updateMutation, inflight,
                   serverVars, deleting>>

\* onChange={(e) => setCode(e.target.value)}, on both pages
setCode(text) ==
    /\ page \in {"project-detail", "diagram-generator"}
    /\ code' = Str(text)
    /\ toast' = NoToast
    /\ UNCHANGED <<page, diagramType, format, diagramName, isEditing,
                   generatedImage, isGenerating, zoom, selectedDiagram,
                   diagramsData, objectURLs, rendersIssued, saveMutation,
                   updateMutation, inflight, serverVars, deleting>>

\* onChange={(e) => setDiagramName(e.target.value)}
setDiagramName(text) ==
    /\ page = "project-detail"
    /\ diagramName' = Str(text)
    /\ toast' = NoToast
    /\ UNCHANGED <<page, diagramType, format, code, isEditing, generatedImage,
                   isGenerating, zoom, selectedDiagram, diagramsData, objectURLs,
                   rendersIssued, saveMutation, updateMutation, inflight,
                   serverVars, deleting>>

\* The call fetch(`${API_URL}/${diagramType}/${format}`, {body: code}) of the
\* handler `by`, the n-th call of the page, with the state that the rest of
\* the handler reads after the await.
RenderCall(by, closure) ==
    Spread([kind |-> "render", by |-> by, n |-> rendersIssued + 1], closure)

\* Button "Generate Diagram": disabled={isGenerating || selectedDiagram !== null}
handleGenerate ==
    /\ page = "project-detail"
    /\ ~(isGenerating \/ selectedDiagram # Null)
    /\ IF trim(code) = ""
       THEN /\ toast' = Toast("Error", "Please enter diagram code")
            /\ UNCHANGED <<isGenerating, rendersIssued, inflight>>
       ELSE /\ isGenerating' = TRUE
            /\ rendersIssued' = rendersIssued + 1
            /\ Send(RenderCall("handleGenerate", [generatedImage |-> generatedImage]))
            /\ toast' = NoToast
    /\ UNCHANGED <<page, diagramType, format, code, diagramName, isEditing,
                   generatedImage, zoom, selectedDiagram, diagramsData,
                   objectURLs, saveMutation, updateMutation, serverVars, deleting>>

\* handleGenerate_settled with setIsGenerating(false) at the end of the try
\* block, not in a finally block.
Mutant_handleGenerate_settled_noFinally(m, ok) ==
    /\ m \in Renders /\ inflight[m].by = "handleGenerate"
    /\ IF ok
       THEN LET imageUrl == createObjectURL(inflight[m].n)
            IN  /\ objectURLs' =
                      revokeIfBlob(objectURLs \cup {imageUrl}, inflight[m].generatedImage)
                /\ generatedImage' = imageUrl
                /\ toast' = Toast("Success", "Diagram generated successfully")
                /\ isGenerating' = FALSE
       ELSE /\ toast' = Toast("Error", "Failed to generate diagram")
            /\ UNCHANGED <<objectURLs, generatedImage, isGenerating>>
    /\ Settle(m)
    /\ UNCHANGED <<page, diagramType, format, code, diagramName, isEditing, zoom,
                   selectedDiagram, diagramsData, rendersIssued, saveMutation,
                   updateMutation, serverVars, deleting>>

\* handleGenerate after its await: the rendering service has answered ok, or
\* has answered with another status or could not be reached.
handleGenerate_settled(m, ok) ==
    /\ m \in Renders /\ inflight[m].by = "handleGenerate"
    /\ IF ok
       THEN LET imageUrl == createObjectURL(inflight[m].n)
            IN  /\ objectURLs' =
                      revokeIfBlob(objectURLs \cup {imageUrl}, inflight[m].generatedImage)
                /\ generatedImage' = imageUrl
                /\ toast' = Toast("Success", "Diagram generated successfully")
       ELSE /\ toast' = Toast("Error", "Failed to generate diagram")
            /\ UNCHANGED <<objectURLs, generatedImage>>
    /\ isGenerating' = FALSE
    /\ Settle(m)
    /\ UNCHANGED <<page, diagramType, format, code, diagramName, isEditing, zoom,
                   selectedDiagram, diagramsData, rendersIssued, saveMutation,
                   updateMutation, serverVars, deleting>>

\* handleSaveDiagram without its check of diagramName.trim()
Mutant_handleSaveDiagram_noNameCheck ==
    /\ page = "project-detail"
    /\ ~isEditing
    /\ ~(Falsy(generatedImage) \/ saveMutation # 0 \/ selectedDiagram # Null)
    /\ Send([kind |-> "save", stage |-> "reading",
             body |-> [projectId |-> Num(projectId),
                       name |-> diagramName,
                       diagramType |-> diagramType,
                       format |-> format,
                       code |-> code,
                       imageData |-> fetch_readAsDataURL(generatedImage)]])
    /\ toast' = NoToast
    /\ UNCHANGED <<page, diagramType, format, code, diagramName, isEditing,
                   generatedImage, isGenerating, zoom, selectedDiagram,
                   diagramsData, objectURLs, rendersIssued, saveMutation,
                   updateMutation, serverVars, deleting>>

\* Button "Save Diagram", rendered when isEditing is false:
\* disabled={!generatedImage || saveMutation.isPending || selectedDiagram !== null}.
\* fetch of a blob URL that has been revoked rejects, and the handler ends.
handleSaveDiagram ==
    /\ page = "project-detail"
    /\ ~isEditing
    /\ ~(Falsy(generatedImage) \/ saveMutation # 0 \/ selectedDiagram # Null)
    /\ CASE Falsy(generatedImage) ->
              /\ toast' = Toast("Error", "Please generate a diagram first")
              /\ UNCHANGED inflight
         [] trim(diagramName) = "" ->
              /\ toast' = Toast("Error", "Please enter a diagram name")
              /\ UNCHANGED inflight
         [] startsWith_blob(generatedImage) /\ generatedImage \notin objectURLs ->
              /\ toast' = NoToast
              /\ UNCHANGED inflight
         [] OTHER ->
              /\ Send([kind |-> "save", stage |-> "reading",
                       body |-> [projectId |-> Num(projectId),
                                 name |-> diagramName,
                                 diagramType |-> diagramType,
                                 format |-> format,
                                 code |-> code,
                                 imageData |-> fetch_readAsDataURL(generatedImage)]])
              /\ toast' = NoToast
    /\ UNCHANGED <<page, diagramType, format, code, diagramName, isEditing,
                   generatedImage, isGenerating, zoom, selectedDiagram,
                   diagramsData, objectURLs, rendersIssued, saveMutation,
                   updateMutation, serverVars, deleting>>

\* reader.onloadend of handleSaveDiagram: saveMutation.mutate(...), which
\* sends POST /api/diagrams.
handleSaveDiagram_onloadend(m) ==
    /\ m \in DOMAIN inflight
    /\ inflight[m].kind = "save" /\ inflight[m].stage = "reading"
    /\ inflight' = [inflight EXCEPT ![m].stage = "sent"]
    /\ saveMutation' = m
    /\ toast' = NoToast
    /\ UNCHANGED <<page, diagramType, format, code, diagramName, isEditing,
                   generatedImage, isGenerating, zoom, selectedDiagram,
                   diagramsData, objectURLs, rendersIssued, updateMutation,
                   serverVars, deleting>>

\* saveMutation: onSuccess and onError
saveMutation_settled(m) ==
    /\ m \in DOMAIN inflight
    /\ inflight[m].kind = "save" /\ inflight[m].stage = "answered"
    /\ IF res_ok(inflight[m].res)
       THEN /\ invalidateQueries(m)
            /\ diagramName' = Str("")
            /\ toast' = Toast("Success", "Diagram saved successfully")
       ELSE /\ Settle(m)
            /\ toast' = Toast("Error", "Failed to save diagram")
            /\ UNCHANGED diagramName
    /\ saveMutation' = IF saveMutation = m THEN 0 ELSE saveMutation
    /\ UNCHANGED <<page, diagramType, format, code, isEditing, generatedImage,
                   isGenerating, zoom, selectedDiagram, diagramsData, objectURLs,
                   rendersIssued, updateMutation, serverVars, deleting>>

\* What handleViewDiagram and handleEditDiagram have in common
Hydrate(diagram, editing) ==
    /\ page = "project-detail"
    /\ diagram \in Cards
    /\ selectedDiagram' = diagram
    /\ diagramType' = diagram.diagramType
    /\ format' = diagram.format
    /\ code' = diagram.code
    /\ diagramName' = diagram.name
    /\ generatedImage' = diagram.imageData
    /\ zoom' = 100
    /\ isEditing' = editing
    /\ toast' = NoToast
    /\ UNCHANGED <<page, isGenerating, diagramsData, objectURLs, rendersIssued,
                   saveMutation, updateMutation, inflight, serverVars, deleting>>

\* onClick of a card of the sidebar
handleViewDiagram(diagram) == Hydrate(diagram, FALSE)

\* Button "Edit" of a card
handleEditDiagram(diagram) == Hydrate(diagram, TRUE)

\* Button "Update Diagram", rendered when isEditing is true:
\* disabled={!selectedDiagram || updateMutation.isPending}
handleUpdateDiagram ==
    /\ page = "project-detail"
    /\ isEditing
    /\ ~(selectedDiagram = Null \/ updateMutation # 0)
    /\ CASE selectedDiagram = Null ->
              /\ toast' = NoToast
              /\ UNCHANGED <<rendersIssued, inflight>>
         [] trim(diagramName) = "" ->
              /\ toast' = Toast("Error", "Please enter a diagram name")
              /\ UNCHANGED <<rendersIssued, inflight>>
         [] OTHER ->
              /\ rendersIssued' = rendersIssued + 1
              /\ Send(RenderCall("handleUpdateDiagram",
                              [generatedImage |-> generatedImage,
                               id |-> selectedDiagram.id,
                               diagramName |-> diagramName,
                               diagramType |-> diagramType,
                               format |-> format,
                               code |-> code]))
              /\ toast' = NoToast
    /\ UNCHANGED <<page, diagramType, format, code, diagramName, isEditing,
                   generatedImage, isGenerating, zoom, selectedDiagram,
                   diagramsData, objectURLs, saveMutation, updateMutation,
                   serverVars, deleting>>

\* handleUpdateDiagram_settled without its check of response.ok
Mutant_handleUpdateDiagram_settled_ignoresOk(m, ok) ==
    /\ m \in Renders /\ inflight[m].by = "handleUpdateDiagram"
    /\ LET call == inflight[m]
           imageUrl == createObjectURL(call.n)
       IN  /\ objectURLs' =
                 revokeIfBlob(objectURLs \cup {imageUrl}, call.generatedImage)
           /\ generatedImage' = imageUrl
           /\ inflight' =
                 [inflight EXCEPT ![m] =
                     [kind |-> "update", stage |-> "sent",
                      id |-> call.id,
                      body |-> [id |-> Num(call.id),
                                name |-> call.diagramName,
                                diagramType |-> call.diagramType,
                                format |-> call.format,
                                code |-> call.code,
                                imageData |-> readAsDataURL(call.n)]]]
           /\ updateMutation' = m
           /\ toast' = NoToast
    /\ UNCHANGED <<page, diagramType, format, code, diagramName, isEditing,
                   isGenerating, zoom, selectedDiagram, diagramsData,
                   rendersIssued, saveMutation, serverVars, deleting>>

\* handleUpdateDiagram_settled with saveMutation.mutate in the place of
\* updateMutation.mutate: the edited diagram is sent as a new one.
Mutant_handleUpdateDiagram_settled_creates(m, ok) ==
    /\ m \in Renders /\ inflight[m].by = "handleUpdateDiagram"
    /\ IF ok
       THEN LET call == inflight[m]
                imageUrl == createObjectURL(call.n)
            IN  /\ objectURLs' =
                      revokeIfBlob(objectURLs \cup {imageUrl}, call.generatedImage)
                /\ generatedImage' = imageUrl
                /\ inflight' =
                      [inflight EXCEPT ![m] =
                          [kind |-> "save", stage |-> "sent",
                           body |-> [projectId |-> Num(projectId),
                                     name |-> call.diagramName,
                                     diagramType |-> call.diagramType,
                                     format |-> call.format,
                                     code |-> call.code,
                                     imageData |-> readAsDataURL(call.n)]]]
                /\ saveMutation' = m
                /\ toast' = NoToast
                /\ UNCHANGED updateMutation
       ELSE /\ toast' = Toast("Error", "Failed to generate diagram")
            /\ Settle(m)
            /\ UNCHANGED <<objectURLs, generatedImage, updateMutation, saveMutation>>
    /\ UNCHANGED <<page, diagramType, format, code, diagramName, isEditing,
                   isGenerating, zoom, selectedDiagram, diagramsData,
                   rendersIssued, serverVars, deleting>>

\* handleUpdateDiagram after its awaits.  On an ok answer it replaces the
\* preview, reads the blob (a local step that changes nothing of the page)
\* and calls updateMutation.mutate(...), which sends PATCH /api/diagrams/:id.
handleUpdateDiagram_settled(m, ok) ==
    /\ m \in Renders /\ inflight[m].by = "handleUpdateDiagram"
    /\ IF ok
       THEN LET call == inflight[m]
                imageUrl == createObjectURL(call.n)
            IN  /\ objectURLs' =
                      revokeIfBlob(objectURLs \cup {imageUrl}, call.generatedImage)
                /\ generatedImage' = imageUrl
                /\ inflight' =
                      [inflight EXCEPT ![m] =
                          [kind |-> "update", stage |-> "sent",
                           id |-> call.id,
                           body |-> [id |-> Num(call.id),
                                     name |-> call.diagramName,
                                     diagramType |-> call.diagramType,
                                     format |-> call.format,
                                     code |-> call.code,
                                     imageData |-> readAsDataURL(call.n)]]]
                /\ updateMutation' = m
                /\ toast' = NoToast
       ELSE /\ toast' = Toast("Error", "Failed to generate diagram")
            /\ Settle(m)
            /\ UNCHANGED <<objectURLs, generatedImage, updateMutation>>
    /\ UNCHANGED <<page, diagramType, format, code, diagramName, isEditing,
                   isGenerating, zoom, selectedDiagram, diagramsData,
                   rendersIssued, saveMutation, serverVars, deleting>>

\* updateMutation: onSuccess and onError
updateMutation_settled(m) ==
    /\ m \in DOMAIN inflight
    /\ inflight[m].kind = "update" /\ inflight[m].stage = "answered"
    /\ IF res_ok(inflight[m].res)
       THEN /\ invalidateQueries(m)
            /\ toast' = Toast("Success", "Diagram updated successfully")
       ELSE /\ Settle(m)
            /\ toast' = Toast("Error", "Failed to update diagram")
    /\ updateMutation' = IF updateMutation = m THEN 0 ELSE updateMutation
    /\ UNCHANGED <<page, diagramType, format, code, diagramName, isEditing,
                   generatedImage, isGenerating, zoom, selectedDiagram,
                   diagramsData, objectURLs, rendersIssued, saveMutation,
                   serverVars, deleting>>

\* Button "Delete" of a card, with window.confirm answered OK:
\* deleteMutation.mutate(id), which sends DELETE /api/diagrams/:id.
handleDeleteDiagram(id) ==
    /\ page = "project-detail"
    /\ \E diagram \in Cards : diagram.id = id
    /\ Send([kind |-> "delete", stage |-> "sent", id |-> id])
    /\ selectedDiagram' =
          IF selectedDiagram # Null /\ selectedDiagram.id = id
          THEN Null ELSE selectedDiagram
    /\ toast' = NoToast
    /\ UNCHANGED <<page, diagramType, format, code, diagramName, isEditing,
                   generatedImage, isGenerating, zoom, diagramsData, objectURLs,
                   rendersIssued, saveMutation, updateMutation, serverVars,
                   deleting>>

\* deleteMutation: onSuccess and onError
deleteMutation_settled(m) ==
    /\ m \in DOMAIN inflight
    /\ inflight[m].kind = "delete" /\ inflight[m].stage = "answered"
    /\ IF res_ok(inflight[m].res)
       THEN /\ invalidateQueries(m)
            /\ toast' = Toast("Success", "Diagram deleted successfully")
       ELSE /\ Settle(m)
            /\ toast' = Toast("Error", "Failed to delete diagram")
    /\ UNCHANGED <<page, diagramType, format, code, diagramName, isEditing,
                   generatedImage, isGenerating, zoom, selectedDiagram,
                   diagramsData, objectURLs, rendersIssued, saveMutation,
                   updateMutation, serverVars, deleting>>

\* Button "Add Diagram"
handleAddDiagram ==
    /\ page = "project-detail"
    /\ selectedDiagram' = Null
    /\ diagramType' = Str("mermaid")
    /\ format' = Str("png")
    /\ code' = Str("")
    /\ diagramName' = Str("")
    /\ generatedImage' = Str("")
    /\ zoom' = 100
    /\ isEditing' = FALSE
    /\ toast' = NoToast
    /\ UNCHANGED <<page, isGenerating, diagramsData, objectURLs, rendersIssued,
                   saveMutation, updateMutation, inflight, serverVars, deleting>>

\* useQuery(["/api/projects", projectId, "diagrams"]): the fetch of the query,
\* made when the page mounted or when a mutation invalidated the query, has
\* been answered.
diagramsQuery_settled(m) ==
    /\ m \in DOMAIN inflight
    /\ inflight[m].kind = "query" /\ inflight[m].stage = "answered"
    /\ diagramsData' =
          IF res_ok(inflight[m].res)
          THEN [data |-> Value(jsonList(inflight[m].res.body)), isError |-> FALSE]
          ELSE [data |-> diagramsData.data, isError |-> TRUE]
    /\ Settle(m)
    /\ toast' = NoToast
    /\ UNCHANGED <<page, diagramType, format, code, diagramName, isEditing,
                   generatedImage, isGenerating, zoom, selectedDiagram,
                   objectURLs, rendersIssued, saveMutation, updateMutation,
                   serverVars, deleting>>

\* A call of the page reaches the server, whose handler answers it.
express_handles(m) ==
    /\ m \in DOMAIN inflight
    /\ inflight[m].kind # "render" /\ inflight[m].stage = "sent"
    /\ CASE inflight[m].kind = "save" ->
              POST_api_diagrams(inflight[m].body)
         [] inflight[m].kind = "update" ->
              PATCH_api_diagrams_id(inflight[m].id, inflight[m].body)
         [] inflight[m].kind = "delete" ->
              DELETE_api_diagrams_id(inflight[m].id)
         [] OTHER ->
              GET_api_projects_projectId_diagrams(projectId)
    /\ inflight' = [inflight EXCEPT
                       ![m] = Spread(inflight[m], [stage |-> "answered", res |-> res'])]

\* The zoom handlers, the same on both pages.  Their buttons are rendered
\* while a preview is shown; zoom-in is disabled={zoom >= 300} and zoom-out
\* disabled={zoom <= 25}.
Min(a, b) == IF a <= b THEN a ELSE b
Max(a, b) == IF a >= b THEN a ELSE b

\* handleZoomIn without Math.min
Mutant_zoomIn_unclamped(prev) == prev + 25

\* setZoom((prev) => Math.min(prev + 25, 300))
zoomIn(prev) == Min(prev + 25, 300)

\* setZoom((prev) => Math.max(prev - 25, 25))
zoomOut(prev) == Max(prev - 25, 25)

setZoom(level) ==
    /\ page # "none"
    /\ ~Falsy(generatedImage)
    /\ zoom' = level
    /\ toast' = NoToast
    /\ UNCHANGED <<page, diagramType, format, code, diagramName, isEditing,
                   generatedImage, isGenerating, selectedDiagram, diagramsData,
                   objectURLs, rendersIssued, saveMutation, updateMutation,
                   inflight, serverVars, deleting>>

handleZoomIn == ~(zoom >= 300) /\ setZoom(zoomIn(zoom))

handleZoomOut == ~(zoom <= 25) /\ setZoom(zoomOut(zoom))

handleZoomReset == setZoom(100)

-----------------------------------------------------------------------------
(* diagram-generator.tsx: the handlers that differ from project-detail.tsx *)

generator_handleDiagramTypeChange(type) ==
    /\ page = "diagram-generator"
    /\ diagramType' = Str(type)
    /\ code' = defaultExamples[type]
    /\ generatedImage' = Null
    /\ toast' = NoToast
    /\ UNCHANGED <<page, format, diagramName, isEditing, isGenerating, zoom,
                   selectedDiagram, diagramsData, objectURLs, rendersIssued,
                   saveMutation, updateMutation, inflight, serverVars, deleting>>

\* Button "Generate Diagram": disabled={isGenerating}
generator_handleGenerate ==
    /\ page = "diagram-generator"
    /\ ~isGenerating
    /\ IF trim(code) = ""
       THEN /\ toast' = Toast("Error", "Please enter diagram code")
            /\ UNCHANGED <<isGenerating, rendersIssued, inflight>>
       ELSE /\ isGenerating' = TRUE
            /\ rendersIssued' = rendersIssued + 1
            /\ Send(RenderCall("generator_handleGenerate", EmptyObj))
            /\ toast' = NoToast
    /\ UNCHANGED <<page, diagramType, format, code, diagramName, isEditing,
                   generatedImage, zoom, selectedDiagram, diagramsData,
                   objectURLs, saveMutation, updateMutation, serverVars, deleting>>

\* handleGenerate of diagram-generator.tsx after its await: it revokes nothing.
generator_handleGenerate_settled(m, ok) ==
    /\ m \in Renders /\ inflight[m].by = "generator_handleGenerate"
    /\ IF ok
       THEN LET imageUrl == createObjectURL(inflight[m].n)
            IN  /\ objectURLs' = objectURLs \cup {imageUrl}
                /\ generatedImage' = imageUrl
                /\ toast' = Toast("Success", "Diagram generated successfully")
       ELSE /\ toast' = Toast("Error", "Failed to generate diagram")
            /\ UNCHANGED <<objectURLs, generatedImage>>
    /\ isGenerating' = FALSE
    /\ Settle(m)
    /\ UNCHANGED <<page, diagramType, format, code, diagramName, isEditing, zoom,
                   selectedDiagram, diagramsData, rendersIssued, saveMutation,
                   updateMutation, serverVars, deleting>>

-----------------------------------------------------------------------------
(* server/storage.ts: DbStorage.deleteProject query by query, for requests  *)
(* that the server handles while the call awaits.  Every other method of    *)
(* DbStorage awaits one query.                                              *)

\* DbStorage.deleteProject with its two queries in the other order: the first
\* query deletes the project row.
Mutant_deleteProject_projectFirst(id) ==
    LET owned == {d \in DOMAIN diagrams : diagrams[d].projectId = Num(id)}
        call == [id |-> id, before |-> owned]
    IN  /\ backend = "db" /\ dbReachable
        /\ call \notin deleting
        /\ projects' = Without(projects, {id})
        /\ deleting' = deleting \cup {call}
        /\ UNCHANGED <<backend, idColumn, dbReachable, diagrams, nextProjectId,
                       nextDiagramId, now, req, res, projectIdsIssued,
                       diagramIdsIssued, pageVars, inflight>>

\* await this.db.delete(diagrams).where(eq(diagrams.projectId, id)), reached
\* from DELETE /api/projects/:id.  The call remembers the diagrams that
\* referenced the project when it began.
DbStorage_deleteProject_diagrams(id) ==
    LET owned == {d \in DOMAIN diagrams : diagrams[d].projectId = Num(id)}
        call == [id |-> id, before |-> owned]
    IN  /\ backend = "db" /\ dbReachable
        /\ call \notin deleting
        /\ diagrams' = Without(diagrams, owned)
        /\ deleting' = deleting \cup {call}
        /\ UNCHANGED <<backend, idColumn, dbReachable, projects, nextProjectId,
                       nextDiagramId, now, req, res, projectIdsIssued,
                       diagramIdsIssued, pageVars, inflight>>

\* await this.db.delete(projects).where(eq(projects.id, id)).returning(),
\* return result.length > 0, and the answer of the handler.
DbStorage_deleteProject_project(call) ==
    LET result == IF call.id \in DOMAIN projects THEN <<projects[call.id]>> ELSE <<>>
    IN  /\ call \in deleting
        /\ projects' = Without(projects, {call.id})
        /\ deleting' = deleting \ {call}
        /\ req' = Request("DELETE", "/api/projects/:id", call.id, EmptyObj)
        /\ res' = IF Len(result) > 0
                  THEN Response(204, EmptyObj)
                  ELSE Response(404, Error("Project not found"))
        /\ UNCHANGED <<backend, idColumn, dbReachable, diagrams, nextProjectId,
                       nextDiagramId, now, projectIdsIssued, diagramIdsIssued,
                       pageVars, inflight>>

-----------------------------------------------------------------------------
(* Specifications *)

\* useState(...) of a page when it mounts; project-detail has sent the fetch
\* of its query of the diagrams.  "none" when no page is open.
Mounted(p) ==
    /\ page = p
    /\ diagramType = Str("mermaid")
    /\ format = Str("svg")
    /\ code = defaultExamples.mermaid
    /\ diagramName = Str("")
    /\ isEditing = FALSE
    /\ generatedImage = Null
    /\ isGenerating = FALSE
    /\ zoom = 100
    /\ selectedDiagram = Null
    /\ diagramsData = [data |-> Undefined, isError |-> FALSE]
    /\ toast = NoToast
    /\ objectURLs = {}
    /\ rendersIssued = 0
    /\ saveMutation = 0
    /\ updateMutation = 0
    /\ inflight = IF p = "project-detail"
                  THEN With(EmptyObj, 1, [kind |-> "query", stage |-> "sent"])
                  ELSE EmptyObj

\* createStorage(): DbStorage when DATABASE_URL is set, MemStorage otherwise,
\* with empty maps or tables, counters at 1 and no request handled yet.
Init ==
    /\ backend \in {"mem", "db"}
    /\ idColumn \in IF backend = "db" THEN {"integer", "serial"} ELSE {"integer"}
    /\ dbReachable \in IF backend = "db" THEN BOOLEAN ELSE {TRUE}
    /\ projects = EmptyObj
    /\ diagrams = EmptyObj
    /\ nextProjectId = 1
    /\ nextDiagramId = 1
    /\ now = 0
    /\ req = Request("none", "none", 0, EmptyObj)
    /\ res = Response(0, EmptyObj)
    /\ projectIdsIssued = <<>>
    /\ diagramIdsIssued = <<>>
    /\ deleting = {}
    /\ Mounted("none")

\* The server alone: requests of any client, one handled at a time.
Next ==
    \/ GET_api_projects /\ UNCHANGED inflight
    \/ \E id \in RequestIds : GET_api_projects_id(id) /\ UNCHANGED inflight
    \/ \E body \in ProjectBodies : POST_api_projects(body) /\ UNCHANGED inflight
    \/ \E id \in RequestIds, body \in ProjectPatches :
          PATCH_api_projects_id(id, body) /\ UNCHANGED inflight
    \/ \E id \in RequestIds : DELETE_api_projects_id(id) /\ UNCHANGED inflight
    \/ \E id \in RequestIds :
          GET_api_projects_projectId_diagrams(id) /\ UNCHANGED inflight
    \/ \E id \in RequestIds : GET_api_diagrams_id(id) /\ UNCHANGED inflight
    \/ \E body \in DiagramBodies : POST_api_diagrams(body) /\ UNCHANGED inflight
    \/ \E id \in RequestIds, body \in DiagramPatches :
          PATCH_api_diagrams_id(id, body) /\ UNCHANGED inflight
    \/ \E id \in RequestIds : DELETE_api_diagrams_id(id) /\ UNCHANGED inflight

Spec == Init /\ [][Next]_vars

\* Payloads whose name is empty or whose diagramType or format is outside the
\* values the pages offer, next to well-formed ones.
NamelessProjectBodies == { [name |-> Str("Demo")], [name |-> Str("")], EmptyObj }
NamelessProjectPatches == { [name |-> Str("")], [description |-> Str("x")] }
OddDiagramBodies ==
    { DiagramBody(Num(1)),
      [DiagramBody(Num(1)) EXCEPT !.name = Str("")],
      [DiagramBody(Num(1)) EXCEPT !.diagramType = Str("plantuml")],
      [DiagramBody(Num(1)) EXCEPT !.format = Str("gif")],
      [k \in DOMAIN DiagramBody(Num(1)) \ {"name"} |-> DiagramBody(Num(1))[k]] }
OddDiagramPatches ==
    { [name |-> Str("")], [diagramType |-> Str("plantuml")], [format |-> Str("gif")],
      [format |-> Str("png")] }

\* The server alone, with those payloads.
NextPayloads ==
    \/ \E body \in NamelessProjectBodies : POST_api_projects(body) /\ UNCHANGED inflight
    \/ \E id \in RequestIds, body \in NamelessProjectPatches :
          PATCH_api_projects_id(id, body) /\ UNCHANGED inflight
    \/ \E body \in OddDiagramBodies : POST_api_diagrams(body) /\ UNCHANGED inflight
    \/ \E id \in RequestIds, body \in OddDiagramPatches :
          PATCH_api_diagrams_id(id, body) /\ UNCHANGED inflight
    \/ \E id \in RequestIds : DELETE_api_diagrams_id(id) /\ UNCHANGED inflight

SpecPayloads == Init /\ [][NextPayloads]_vars

\* The server on DbStorage, with the queries of deleteProject interleaved with
\* the other requests.
InitInterleaved ==
    /\ Init
    /\ backend = "db" /\ idColumn = "serial" /\ dbReachable

NextInterleaved ==
    \/ \E body \in {[name |-> Str("Demo")]} : POST_api_projects(body) /\ UNCHANGED inflight
    \/ \E body \in {DiagramBody(Num(1)), DiagramBody(Num(2))} :
          POST_api_diagrams(body) /\ UNCHANGED inflight
    \/ \E id \in RequestIds, body \in {[projectId |-> Num(1)], [projectId |-> Num(2)]} :
          PATCH_api_diagrams_id(id, body) /\ UNCHANGED inflight
    \/ \E id \in RequestIds : DELETE_api_diagrams_id(id) /\ UNCHANGED inflight
    \/ \E id \in RequestIds : DbStorage_deleteProject_diagrams(id)
    \/ \E call \in deleting : DbStorage_deleteProject_project(call)

SpecInterleaved == InitInterleaved /\ [][NextInterleaved]_vars

\* A project that POST /api/projects has created on MemStorage, with no
\* diagram or with one that POST /api/diagrams has stored.
StoredProject ==
    [name |-> Str("Demo"), description |-> Null, id |-> projectId, createdAt |-> 0]
StoredDiagram ==
    [projectId |-> Num(projectId), name |-> Str("Saved"),
     diagramType |-> Str("graphviz"), format |-> Str("svg"),
     code |-> Str("digraph saved"), imageData |-> readAsDataURL(0),
     id |-> 1, createdAt |-> 0]

\* The server when a page is opened for that project
InitOpened ==
    /\ backend = "mem" /\ idColumn = "integer" /\ dbReachable = TRUE
    /\ projects = With(EmptyObj, projectId, StoredProject)
    /\ nextProjectId = projectId + 1
    /\ projectIdsIssued = <<projectId>>
    /\ now = 0
    /\ \/ /\ diagrams = EmptyObj
          /\ nextDiagramId = 1
          /\ diagramIdsIssued = <<>>
          /\ req = Request("POST", "/api/projects", 0, [name |-> Str("Demo")])
          /\ res = Response(201, StoredProject)
       \/ /\ diagrams = With(EmptyObj, StoredDiagram.id, StoredDiagram)
          /\ nextDiagramId = StoredDiagram.id + 1
          /\ diagramIdsIssued = <<StoredDiagram.id>>
          /\ req = Request("POST", "/api/diagrams", 0,
                           Without(StoredDiagram, {"id", "createdAt"}))
          /\ res = Response(201, StoredDiagram)
    /\ deleting = {}

\* A run goes on while the page has made fewer than n calls to the rendering
\* service and has fewer than k calls in flight.
MayRender(n) == rendersIssued < n
MayCall(k) == Cardinality(DOMAIN inflight) < k

\* The page project-detail, the rendering service and the server, with calls
\* of the page that race each other.
InitWorkflow == InitOpened /\ Mounted("project-detail")

NextWorkflow ==
    \/ \E text \in {"Flow"} : setDiagramName(text)
    \/ MayRender(RacingRenders) /\ MayCall(RacingInFlight) /\ handleGenerate
    \/ \E m \in DOMAIN inflight, ok \in BOOLEAN : handleGenerate_settled(m, ok)
    \/ MayCall(RacingInFlight) /\ handleSaveDiagram
    \/ \E m \in DOMAIN inflight : handleSaveDiagram_onloadend(m)
    \/ \E m \in DOMAIN inflight : saveMutation_settled(m)
    \/ \E diagram \in Cards : handleViewDiagram(diagram)
    \/ \E diagram \in Cards : handleEditDiagram(diagram)
    \/ MayRender(RacingRenders) /\ MayCall(RacingInFlight) /\ handleUpdateDiagram
    \/ \E m \in DOMAIN inflight, ok \in BOOLEAN : handleUpdateDiagram_settled(m, ok)
    \/ \E m \in DOMAIN inflight : updateMutation_settled(m)
    \/ handleAddDiagram
    \/ \E m \in DOMAIN inflight : diagramsQuery_settled(m)
    \/ \E m \in DOMAIN inflight : express_handles(m)

SpecWorkflow == InitWorkflow /\ [][NextWorkflow]_vars

\* The page project-detail of a project with a stored diagram: the diagram is
\* viewed, edited, rendered again, updated and deleted; none is created.
InitUpdate ==
    /\ InitOpened
    /\ DOMAIN diagrams # {}
    /\ Mounted("project-detail")

NextUpdate ==
    \/ \E text \in {"Flow"} : setDiagramName(text)
    \/ \E text \in {"graph TD; A-->B"} : setCode(text)
    \/ MayRender(MaxRenders) /\ MayCall(MaxInFlight) /\ handleGenerate
    \/ \E m \in DOMAIN inflight, ok \in BOOLEAN : handleGenerate_settled(m, ok)
    \/ \E diagram \in Cards : handleViewDiagram(diagram)
    \/ \E diagram \in Cards : handleEditDiagram(diagram)
    \/ MayRender(MaxRenders) /\ MayCall(MaxInFlight) /\ handleUpdateDiagram
    \/ \E m \in DOMAIN inflight, ok \in BOOLEAN : handleUpdateDiagram_settled(m, ok)
    \/ \E m \in DOMAIN inflight : updateMutation_settled(m)
    \/ \E diagram \in Cards : MayCall(MaxInFlight) /\ handleDeleteDiagram(diagram.id)
    \/ \E m \in DOMAIN inflight : deleteMutation_settled(m)
    \/ \E m \in DOMAIN inflight : diagramsQuery_settled(m)
    \/ \E m \in DOMAIN inflight : express_handles(m)

SpecUpdate == InitUpdate /\ [][NextUpdate]_vars

\* The editor of either page with what the user chooses in it, and the cards
\* of project-detail; nothing is saved, updated or deleted.
InitEditor ==
    /\ InitOpened
    /\ \E p \in {"project-detail", "diagram-generator"} : Mounted(p)

NextEditor ==
    \/ \E type \in diagramTypes : handleDiagramTypeChange(type)
    \/ \E type \in diagramTypes : generator_handleDiagramTypeChange(type)
    \/ \E fmt \in formatTypes : setFormat(fmt)
    \/ \E text \in {"graph TD; A-->B"} : setCode(text)
    \/ MayRender(MaxRenders) /\ MayCall(MaxInFlight) /\ handleGenerate
    \/ \E m \in DOMAIN inflight, ok \in BOOLEAN : handleGenerate_settled(m, ok)
    \/ MayRender(MaxRenders) /\ MayCall(MaxInFlight) /\ generator_handleGenerate
    \/ \E m \in DOMAIN inflight, ok \in BOOLEAN : generator_handleGenerate_settled(m, ok)
    \/ \E diagram \in Cards : handleViewDiagram(diagram)
    \/ \E diagram \in Cards : handleEditDiagram(diagram)
    \/ handleAddDiagram
    \/ \E m \in DOMAIN inflight : diagramsQuery_settled(m)
    \/ \E m \in DOMAIN inflight : express_handles(m)

SpecEditor == InitEditor /\ [][NextEditor]_vars

\* The same, with every call of Generate to the rendering service settling
\* (fetch resolves or rejects) and its continuation running.
SpecEditorFair ==
    /\ SpecEditor
    /\ WF_vars(\E m \in DOMAIN inflight, ok \in BOOLEAN : handleGenerate_settled(m, ok))
    /\ WF_vars(\E m \in DOMAIN inflight, ok \in BOOLEAN :
                  generator_handleGenerate_settled(m, ok))

\* The page project-detail with Save: a draft is named, rendered and saved,
\* and a new draft is begun.
NextSave ==
    \/ \E text \in {"Flow", " "} : setDiagramName(text)
    \/ MayRender(MaxRenders) /\ MayCall(MaxInFlight) /\ handleGenerate
    \/ \E m \in DOMAIN inflight, ok \in BOOLEAN : handleGenerate_settled(m, ok)
    \/ MayCall(MaxInFlight) /\ handleSaveDiagram
    \/ \E m \in DOMAIN inflight : handleSaveDiagram_onloadend(m)
    \/ \E m \in DOMAIN inflight : saveMutation_settled(m)
    \/ handleAddDiagram
    \/ \E m \in DOMAIN inflight : diagramsQuery_settled(m)
    \/ \E m \in DOMAIN inflight : express_handles(m)

SpecSave == InitWorkflow /\ [][NextSave]_vars

\* The same with the cards of the sidebar: stored diagrams are viewed and
\* deleted.
NextSidebar ==
    \/ NextSave
    \/ \E diagram \in Cards : handleViewDiagram(diagram)
    \/ \E diagram \in Cards : MayCall(MaxInFlight) /\ handleDeleteDiagram(diagram.id)
    \/ \E m \in DOMAIN inflight : deleteMutation_settled(m)

SpecSidebar == InitWorkflow /\ [][NextSidebar]_vars

\* Either page with its preview and the zoom controls: previews come from
\* renders and, on project-detail, from the cards.
NextZoom ==
    \/ handleZoomIn
    \/ handleZoomOut
    \/ handleZoomReset
    \/ \E type \in {"graphviz"} : handleDiagramTypeChange(type)
    \/ \E type \in {"graphviz"} : generator_handleDiagramTypeChange(type)
    \/ MayRender(RacingRenders) /\ MayCall(MaxInFlight) /\ handleGenerate
    \/ \E m \in DOMAIN inflight, ok \in BOOLEAN : handleGenerate_settled(m, ok)
    \/ MayRender(RacingRenders) /\ MayCall(MaxInFlight) /\ generator_handleGenerate
    \/ \E m \in DOMAIN inflight, ok \in BOOLEAN : generator_handleGenerate_settled(m, ok)
    \/ \E diagram \in Cards : handleViewDiagram(diagram)
    \/ \E diagram \in Cards : handleEditDiagram(diagram)
    \/ handleAddDiagram
    \/ \E m \in DOMAIN inflight : diagramsQuery_settled(m)
    \/ \E m \in DOMAIN inflight : express_handles(m)

SpecZoom == InitEditor /\ [][NextZoom]_vars

-----------------------------------------------------------------------------
(* Properties.  Every step of Next handles one request: req' is the request *)
(* of the step and res' its response.                                        *)

\* The step handles this method on this route.
Handles(method, path) == req'.method = method /\ req'.path = path

\* The payload of a request, as its route validates it.
Parsed(request) ==
    ZodParse(IF request.path \in {"/api/projects", "/api/projects/:id"}
             THEN insertProjectSchema ELSE insertDiagramSchema,
             request.body,
             request.method = "PATCH")

\* The request passes the validation of its route; GET and DELETE have none.
WellFormed(request) ==
    request.method \in {"POST", "PATCH"} => Parsed(request).ok

StorageUnchanged ==
    UNCHANGED <<projects, diagrams, nextProjectId, nextDiagramId>>

\* The backend answers its queries: MemStorage always, DbStorage while the
\* pool reaches the database.
BackendUp == backend = "mem" \/ dbReachable

\* C1: when deleteProject(p) has returned true (DELETE /api/projects/p answered
\* 204), getDiagramsByProject(p) returns the empty list and getDiagram(d)
\* returns undefined for every diagram d that belonged to p before the call,
\* whichever backend is in use.
C1_DeleteProjectCascades ==
    [][\A p \in RequestIds :
          (Handles("DELETE", "/api/projects/:id") /\ req'.id = p /\ res'.status = 204) =>
              /\ \A o \in (storage_getDiagramsByProject(p))' : o.ret = Value(<<>>)
              /\ \A d \in DOMAIN diagrams :
                    diagrams[d].projectId = Num(p) =>
                        \A o \in (storage_getDiagram(d))' : o.ret = Undefined
      ]_vars

\* A project that had a diagram has been deleted, and no diagram is left.
C1_Witness ==
    /\ req.method = "DELETE" /\ req.path = "/api/projects/:id" /\ res.status = 204
    /\ diagramIdsIssued # <<>>
    /\ DOMAIN diagrams = {}

\* The well-formed payloads of the handlers, as the storage calls receive them.
ProjectInserts ==
    {ZodParse(insertProjectSchema, b, FALSE).data :
        b \in {x \in ProjectBodies : ZodParse(insertProjectSchema, x, FALSE).ok}}
ProjectUpdates ==
    {ZodParse(insertProjectSchema, b, TRUE).data :
        b \in {x \in ProjectPatches : ZodParse(insertProjectSchema, x, TRUE).ok}}
DiagramInserts ==
    {ZodParse(insertDiagramSchema, b, FALSE).data :
        b \in {x \in DiagramBodies : ZodParse(insertDiagramSchema, x, FALSE).ok}}
DiagramUpdates ==
    {ZodParse(insertDiagramSchema, b, TRUE).data :
        b \in {x \in DiagramPatches : ZodParse(insertDiagramSchema, x, TRUE).ok}}

\* C2: MemStorage and DbStorage, called in the same storage state with the same
\* arguments, return the same result and leave the same projects and diagrams
\* (from the same state the ids and timestamps they assign coincide too).
\* Stated for the database whose id columns are serial and for updates that set
\* at least one field; C5 and C6 cover the calls in which DbStorage raises.
C2_SameSemantics ==
    idColumn = "serial" =>
        /\ MemStorage_getAllProjects = DbStorage_getAllProjects
        /\ \A data \in ProjectInserts :
              MemStorage_createProject(data) = DbStorage_createProject(data)
        /\ \A data \in DiagramInserts :
              MemStorage_createDiagram(data) = DbStorage_createDiagram(data)
        /\ \A id \in RequestIds :
              /\ MemStorage_getProject(id) = DbStorage_getProject(id)
              /\ MemStorage_deleteProject(id) = DbStorage_deleteProject(id)
              /\ MemStorage_getDiagramsByProject(id) = DbStorage_getDiagramsByProject(id)
              /\ MemStorage_getDiagram(id) = DbStorage_getDiagram(id)
              /\ MemStorage_deleteDiagram(id) = DbStorage_deleteDiagram(id)
              /\ \A data \in ProjectUpdates \ {EmptyObj} :
                    MemStorage_updateProject(id, data) = DbStorage_updateProject(id, data)
              /\ \A data \in DiagramUpdates \ {EmptyObj} :
                    MemStorage_updateDiagram(id, data) = DbStorage_updateDiagram(id, data)

\* The record after { ...record, ...data }, field by field: a field that data
\* supplies takes its value, every other field, and always id and createdAt,
\* keeps its own.
MergedFrom(before, data, after) ==
    /\ DOMAIN after = DOMAIN before
    /\ \A k \in DOMAIN before :
          after[k] = IF k \in (DOMAIN data) \ {"id", "createdAt"}
                     THEN data[k] ELSE before[k]

\* C3: updateProject and updateDiagram on a stored id (PATCH with a well-formed
\* payload) return and store the record with exactly the supplied fields
\* replaced, id and createdAt kept, and change no other record.
C3_UpdateMerges ==
    [][/\ \A id \in DOMAIN projects :
             (Handles("PATCH", "/api/projects/:id") /\ req'.id = id /\ Parsed(req').ok) =>
                 /\ res'.status = 200
                 /\ id \in DOMAIN projects'
                 /\ res'.body = projects'[id]
                 /\ MergedFrom(projects[id], Parsed(req').data, projects'[id])
                 /\ Without(projects', {id}) = Without(projects, {id})
                 /\ diagrams' = diagrams
       /\ \A id \in DOMAIN diagrams :
             (Handles("PATCH", "/api/diagrams/:id") /\ req'.id = id /\ Parsed(req').ok) =>
                 /\ res'.status = 200
                 /\ id \in DOMAIN diagrams'
                 /\ res'.body = diagrams'[id]
                 /\ MergedFrom(diagrams[id], Parsed(req').data, diagrams'[id])
                 /\ Without(diagrams', {id}) = Without(diagrams, {id})
                 /\ projects' = projects
      ]_vars

\* seq lists exactly the rows, each once, newest first; a row newer than every
\* other row is the first.
ListsNewestFirst(seq, rows) ==
    /\ Len(seq) = Cardinality(rows)
    /\ {seq[i] : i \in 1..Len(seq)} = rows
    /\ \A i \in 1..Len(seq) : \A j \in i..Len(seq) : seq[i].createdAt >= seq[j].createdAt
    /\ \A r \in rows :
          (\A q \in rows \ {r} : r.createdAt > q.createdAt) => seq[1] = r

\* C4: in every reachable state getAllProjects() returns every stored project
\* and getDiagramsByProject(p) exactly the stored diagrams of p, newest first
\* (while the backend answers).
C4_ListsNewestFirst ==
    BackendUp =>
        /\ \A o \in storage_getAllProjects :
              o.ret.k = "value" /\ ListsNewestFirst(o.ret.v, Rows(projects))
        /\ \A p \in RequestIds : \A o \in storage_getDiagramsByProject(p) :
              /\ o.ret.k = "value"
              /\ ListsNewestFirst(o.ret.v,
                                  {d \in Rows(diagrams) : d.projectId = Num(p)})

\* GET /api/projects has listed two projects created at different times.
C4_Witness ==
    /\ req.method = "GET" /\ req.path = "/api/projects" /\ res.status = 200
    /\ Len(res.body) = 2
    /\ res.body[1].createdAt > res.body[2].createdAt
    /\ res.body[1].id > res.body[2].id

\* C5: every createProject(data) call (POST /api/projects with a well-formed
\* payload) returns a record, getProject of its id returns an equal record
\* right afterwards, and its description is null when data has none.
C5_CreateThenGet ==
    [][(BackendUp /\ Handles("POST", "/api/projects") /\ Parsed(req').ok) =>
          /\ res'.status = 201
          /\ \A id \in RequestIds :
                id = res'.body.id =>
                    \A o \in (storage_getProject(id))' : o.ret = Value(res'.body)
          /\ "description" \notin DOMAIN Parsed(req').data =>
                res'.body.description = Null
      ]_vars

\* C6: on an id that is not stored, deleteProject and deleteDiagram return
\* false, and getProject, getDiagram, updateProject and updateDiagram return
\* undefined; none raises.  The handlers show which: 404 answers a returned
\* false or undefined, 500 (GET, DELETE) or 400 (PATCH of a well-formed
\* payload) a raised error.  Stated for a backend that answers its queries.
C6_AbsentIdNeverRaises ==
    [][/\ (/\ BackendUp
           /\ req'.path = "/api/projects/:id"
           /\ req'.id \notin DOMAIN projects
           /\ WellFormed(req')) => res'.status = 404
       /\ (/\ BackendUp
           /\ req'.path = "/api/diagrams/:id"
           /\ req'.id \notin DOMAIN diagrams
           /\ WellFormed(req')) => res'.status = 404
      ]_vars

\* The sequence 1, 2, ..., n
OneTo(n) == [i \in 1..n |-> i]

\* C7: MemStorage assigns project ids 1, 2, 3, ... in creation order and
\* diagram ids 1, 2, 3, ... from a counter of their own, so no id is assigned
\* twice, whatever was deleted in between.
C7_MemIdsCountUp ==
    backend = "mem" =>
        /\ projectIdsIssued = OneTo(Len(projectIdsIssued))
        /\ diagramIdsIssued = OneTo(Len(diagramIdsIssued))

\* MemStorage has created a second project after the first was deleted.
C7_Witness ==
    /\ backend = "mem"
    /\ projectIdsIssued = <<1, 2>>
    /\ req.method = "POST" /\ req.path = "/api/projects" /\ res.status = 201
    /\ DOMAIN projects = {2}

\* C8: a diagram stored by POST /api/diagrams, or given a projectId by
\* PATCH /api/diagrams/:id, names a project that is stored at that moment.
C8_ProjectExistsAtCreation ==
    [][/\ (Handles("POST", "/api/diagrams") /\ res'.status = 201) =>
              res'.body.projectId.n \in DOMAIN projects
       /\ (/\ Handles("PATCH", "/api/diagrams/:id")
           /\ res'.status = 200
           /\ "projectId" \in DOMAIN Parsed(req').data) =>
              res'.body.projectId.n \in DOMAIN projects
      ]_vars

\* What C9 asks of a request on a route with an id: 404 and storage unchanged
\* when the id is absent, the success status of the method otherwise.
AnswersById(table) ==
    IF req'.id \notin DOMAIN table
    THEN res'.status = 404 /\ StorageUnchanged
    ELSE res'.status = IF req'.method = "DELETE" THEN 204 ELSE 200

\* C9: GET, PATCH with a well-formed payload, and DELETE on /api/projects/:id
\* and /api/diagrams/:id answer 404 exactly when the id is not stored, and then
\* leave storage unchanged; on a stored id they answer 200 (GET, PATCH) or 204
\* (DELETE).  Stated for payloads that set at least one field and a backend
\* that answers its queries.
C9_NotFoundExactlyWhenAbsent ==
    [][/\ (/\ BackendUp
           /\ req'.path = "/api/projects/:id"
           /\ WellFormed(req')
           /\ req'.method = "PATCH" => Parsed(req').data # EmptyObj)
              => AnswersById(projects)
       /\ (/\ BackendUp
           /\ req'.path = "/api/diagrams/:id"
           /\ WellFormed(req')
           /\ req'.method = "PATCH" => Parsed(req').data # EmptyObj)
              => AnswersById(diagrams)
      ]_vars

\* C10: a POST or PATCH whose payload fails schema validation is answered 400
\* and leaves the projects, the diagrams and both id counters as they were.
C10_InvalidPayloadRejected ==
    [][(req'.method \in {"POST", "PATCH"} /\ ~Parsed(req').ok) =>
          (res'.status = 400 /\ StorageUnchanged)
      ]_vars

\* A PATCH on a stored diagram with a malformed payload has been answered 400.
C10_Witness ==
    /\ req.method = "PATCH" /\ req.path = "/api/diagrams/:id"
    /\ req.id \in DOMAIN diagrams
    /\ ~Parsed(req).ok
    /\ res.status = 400

\* C11: a request whose storage call fails in the backend (here: DbStorage
\* with the database out of reach) is answered 500, never 400 or 404, when
\* its payload passes validation.
C11_BackendFaultIs500 ==
    [][(backend = "db" /\ ~dbReachable /\ WellFormed(req')) =>
          res'.status = 500
      ]_vars

\* The payload of the step names no name, or names the empty one, where the
\* route requires a name: always on POST, on PATCH when the name is given.
NameMissingOrEmpty(request) ==
    \/ /\ request.method = "POST"
       /\ "name" \notin DOMAIN request.body
    \/ /\ request.method \in {"POST", "PATCH"}
       /\ "name" \in DOMAIN request.body
       /\ request.body.name = Str("")

\* C12: a POST or PATCH of a project or a diagram whose name is missing or
\* empty is answered 400 and stores nothing.
C12_EmptyNameRejected ==
    [][NameMissingOrEmpty(req') => (res'.status = 400 /\ StorageUnchanged)]_vars

\* The payload names a diagramType or a format outside the enumerations.
OutsideEnumerations(request) ==
    \/ /\ "diagramType" \in DOMAIN request.body
       /\ request.body.diagramType \notin {Str(t) : t \in diagramTypes}
    \/ /\ "format" \in DOMAIN request.body
       /\ request.body.format \notin {Str(f) : f \in formatTypes}

\* C13: a POST or PATCH of a diagram whose diagramType is not one of mermaid,
\* graphviz, bpmn, excalidraw, or whose format is not svg or png, is answered
\* 400, and no stored diagram carries such a value.
C13_EnumerationsEnforced ==
    [][/\ (/\ req'.method \in {"POST", "PATCH"}
           /\ req'.path \in {"/api/diagrams", "/api/diagrams/:id"}
           /\ OutsideEnumerations(req')) => res'.status = 400
       /\ \A id \in DOMAIN diagrams' :
             /\ diagrams'[id].diagramType \in {Str(t) : t \in diagramTypes}
             /\ diagrams'[id].format \in {Str(f) : f \in formatTypes}
      ]_vars

\* The step runs onSuccess of saveMutation for the call m: the create request
\* of m has been answered with success and m settles.
SaveSucceeds(m) ==
    /\ inflight[m].kind = "save" /\ inflight[m].stage = "answered"
    /\ res_ok(inflight[m].res)
    /\ (m \in DOMAIN inflight' => inflight'[m] # inflight[m])

\* The step is the server answering the create request of the call m.
SaveHandled(m) ==
    /\ inflight[m].kind = "save" /\ inflight[m].stage = "sent"
    /\ m \in DOMAIN inflight' /\ inflight'[m].stage = "answered"

\* C14: a Save whose create request succeeds creates exactly one diagram, and
\* when it has succeeded the page is Viewing that diagram: it is the selected
\* one and the edit flag is off, so Save is not available again.
C14_SaveEntersViewing ==
    [][\A m \in DOMAIN inflight :
          /\ (SaveHandled(m) /\ res_ok(res')) =>
                 /\ Cardinality(DOMAIN diagrams') = Cardinality(DOMAIN diagrams) + 1
                 /\ res'.body.id \in DOMAIN diagrams' \ DOMAIN diagrams
          /\ SaveSucceeds(m) =>
                 /\ selectedDiagram' # Null
                 /\ selectedDiagram'.id = inflight[m].res.body.id
                 /\ isEditing' = FALSE
      ]_vars

\* C17: at most one call to the rendering service is outstanding at any time.
C17_OneRenderOutstanding == Cardinality(Renders) <= 1

\* C18: every object URL the page has created and that is not the preview
\* shown has been revoked.
C18_OnlyShownBlobUnreleased == objectURLs \subseteq {generatedImage}

\* C15: on both editor pages handleDiagramTypeChange(t) leaves the selected
\* type t, the code the built-in example of t and no preview, whatever the
\* state it is called in.
C15_TypeChangeLoadsExample ==
    [][\A t \in diagramTypes :
          (handleDiagramTypeChange(t) \/ generator_handleDiagramTypeChange(t)) =>
              /\ diagramType' = Str(t)
              /\ code' = defaultExamples[t]
              /\ generatedImage' = Null
      ]_vars

\* The type has been changed to bpmn while a stored diagram was selected: the
\* preview hydrated from the record is gone and the code is the bpmn example.
C15_Witness ==
    /\ selectedDiagram # Null
    /\ selectedDiagram.diagramType # Str("bpmn")
    /\ diagramType = Str("bpmn")
    /\ code = defaultExamples["bpmn"]
    /\ generatedImage = Null

\* The step is the failure path of a render: the rendering service has
\* answered the call m with a non-success status or could not be reached.
RenderFails(m) ==
    handleGenerate_settled(m, FALSE) \/ handleUpdateDiagram_settled(m, FALSE)

\* The create and update requests among the calls
MutationCalls(calls) ==
    {m \in DOMAIN calls : calls[m].kind \in {"save", "update"}}

\* What a failed render must leave alone
DraftUnchanged ==
    UNCHANGED <<code, diagramType, format, diagramName, generatedImage,
                selectedDiagram, isEditing>>

\* C16: a failed render changes nothing of the workflow: neither triggering
\* the render nor its failure path changes the code, the type, the format,
\* the name, the preview, the selected diagram or the edit flag; the failure
\* is reported as an error, and no create or update request is sent and the
\* server is not touched.
C16_FailedRenderChangesNothing ==
    [][/\ (handleGenerate \/ handleUpdateDiagram) => DraftUnchanged
       /\ \A m \in DOMAIN inflight :
             RenderFails(m) =>
                 /\ DraftUnchanged
                 /\ toast'.title = "Error"
                 /\ MutationCalls(inflight') \subseteq MutationCalls(inflight)
                 /\ UNCHANGED serverVars
      ]_vars

\* The render of an Update has failed: the page still edits the stored
\* diagram with the drafted code and name and the preview hydrated from the
\* record, the error is shown and no request is in flight.
C16_Witness ==
    /\ toast = Toast("Error", "Failed to generate diagram")
    /\ isEditing /\ selectedDiagram # Null
    /\ generatedImage = selectedDiagram.imageData
    /\ code = Str("graph TD; A-->B")
    /\ diagramName = Str("Flow")
    /\ rendersIssued = 1
    /\ inflight = EmptyObj

\* The step is the server answering the update request of the call m.
UpdateHandled(m) ==
    /\ inflight[m].kind = "update" /\ inflight[m].stage = "sent"
    /\ m \in DOMAIN inflight' /\ inflight'[m].stage = "answered"

\* The fields an Update writes
UpdatedFields == {"name", "diagramType", "format", "code", "imageData"}

\* C19: Update never creates a diagram.  Its click sends nothing to the
\* server but starts a render that remembers the id of the selected diagram;
\* when the render has succeeded exactly one request is sent, a partial
\* update addressed to that id; the server handles it as PATCH
\* /api/diagrams/:id, which leaves the set of stored diagrams as it was, and
\* when it answers with success the record of that id carries the name, type,
\* format, code and image of the request.
C19_UpdateNeverCreates ==
    [][/\ handleUpdateDiagram =>
             /\ MutationCalls(inflight') = MutationCalls(inflight)
             /\ \A m \in DOMAIN inflight' \ DOMAIN inflight :
                   inflight'[m].id = selectedDiagram.id
       /\ \A m \in DOMAIN inflight :
             /\ handleUpdateDiagram_settled(m, TRUE) =>
                   /\ MutationCalls(inflight') = MutationCalls(inflight) \cup {m}
                   /\ inflight'[m].kind = "update"
                   /\ inflight'[m].id = inflight[m].id
                   /\ DOMAIN inflight'[m].body = UpdatedFields \cup {"id"}
                   /\ inflight'[m].body.imageData = readAsDataURL(inflight[m].n)
             /\ UpdateHandled(m) =>
                   /\ Handles("PATCH", "/api/diagrams/:id")
                   /\ req'.id = inflight[m].id
                   /\ DOMAIN diagrams' = DOMAIN diagrams
                   /\ res_ok(res') =>
                         \A f \in UpdatedFields :
                             diagrams'[req'.id][f] = inflight[m].body[f]
      ]_vars

\* An Update of the stored diagram has succeeded: there is still one diagram,
\* with its id, and it carries the drafted name and code and the image of the
\* render of the Update.
C19_Witness ==
    /\ toast = Toast("Success", "Diagram updated successfully")
    /\ DOMAIN diagrams = {StoredDiagram.id}
    /\ diagrams[StoredDiagram.id].name = Str("Flow")
    /\ diagrams[StoredDiagram.id].code = Str("graph TD; A-->B")
    /\ diagrams[StoredDiagram.id].imageData = readAsDataURL(1)

\* C20: DbStorage.deleteProject deletes the diagrams of the project before
\* the project row: while a call is between its two queries, and when it has
\* run its second, no diagram that referenced the project before the call is
\* stored unless the project row is still there.
C20_DiagramsBeforeProjectRow ==
    [][/\ \A call \in deleting' :
             call.id \notin DOMAIN projects' =>
                 call.before \cap DOMAIN diagrams' = {}
       /\ \A call \in deleting \ deleting' :
             /\ call.id \notin DOMAIN projects'
             /\ call.before \cap DOMAIN diagrams' = {}
      ]_vars

\* A call of deleteProject is between its two queries: the diagrams that
\* referenced the project are gone and the project row is still stored.
C20_Witness ==
    \E call \in deleting :
        /\ call.before # {}
        /\ call.id \in DOMAIN projects
        /\ call.before \cap DOMAIN diagrams = {}

\* The zoom levels: the multiples of 25 from 25 to 300
ZoomLevels == {z \in 25..300 : z % 25 = 0}

\* The step is a zoom action.
ZoomAction == handleZoomIn \/ handleZoomOut \/ handleZoomReset

\* C23: the zoom level starts at 100 and is always a multiple of 25 within
\* [25, 300]; zoom-in at 300 and zoom-out at 25 give the level they are
\* applied to, and both keep every level within the levels; a zoom action
\* changes neither the code, the preview, the selection nor a stored record.
C23_ZoomClamped ==
    /\ zoom = 100
    /\ [](zoom \in ZoomLevels)
    /\ [][/\ zoomIn(300) = 300 /\ zoomOut(25) = 25
          /\ \A z \in ZoomLevels : zoomIn(z) \in ZoomLevels /\ zoomOut(z) \in ZoomLevels
          /\ ZoomAction =>
                /\ zoom' \in {zoomIn(zoom), zoomOut(zoom), 100}
                /\ UNCHANGED <<code, generatedImage, selectedDiagram, projects,
                               diagrams>>
         ]_vars

\* On diagram-generator the zoom has been taken to 300.
C23_Witness ==
    /\ page = "diagram-generator"
    /\ zoom = 300
    /\ ~Falsy(generatedImage)

\* C24: a step that loads a new preview (a render that has succeeded, or a
\* stored diagram viewed or edited) leaves the zoom level at 100.
C24_NewPreviewResetsZoom ==
    [][(generatedImage' # generatedImage /\ ~Falsy(generatedImage')) =>
          zoom' = 100
      ]_vars

\* C25: a DELETE /api/projects/:id answered 404 (deleteProject has returned
\* false) leaves the projects and the diagrams as they were, in both backends.
C25_AbsentProjectDeleteChangesNothing ==
    [][(Handles("DELETE", "/api/projects/:id") /\ res'.status = 404) =>
          StorageUnchanged
      ]_vars

\* The records of the table, except those with an id in ids, are stored
\* unchanged after the step, and the step stores no new record.
KeptExcept(table, ids) ==
    /\ DOMAIN table' \subseteq DOMAIN table
    /\ \A id \in DOMAIN table \ ids :
          id \in DOMAIN table' /\ table'[id] = table[id]

\* C26: deleteProject(p) removes at most project p and the diagrams whose
\* projectId is p, and deleteDiagram(d) at most diagram d and no project:
\* every other record is stored unchanged after the request.
C26_DeleteScope ==
    [][/\ Handles("DELETE", "/api/projects/:id") =>
             /\ KeptExcept(projects, {req'.id})
             /\ KeptExcept(diagrams, {d \in DOMAIN diagrams :
                                         diagrams[d].projectId = Num(req'.id)})
       /\ Handles("DELETE", "/api/diagrams/:id") =>
             /\ projects' = projects
             /\ KeptExcept(diagrams, {req'.id})
      ]_vars

\* A project has been deleted while a diagram of another project id was
\* stored, and that diagram is still stored.
C26_Witness ==
    /\ req.method = "DELETE" /\ req.path = "/api/projects/:id" /\ res.status = 204
    /\ \E d \in DOMAIN diagrams : diagrams[d].projectId # Num(req.id)

\* C27: on DbStorage, with the other requests interleaved between the two
\* queries of deleteProject, when a call deleteProject(p) returns true (its
\* request is answered 204) no diagram with projectId p is stored.
C27_NoDiagramSurvivesDelete ==
    [][\A call \in deleting \ deleting' :
          res'.status = 204 =>
              \A d \in DOMAIN diagrams' : diagrams'[d].projectId # Num(call.id)
      ]_vars

\* C21: while a stored diagram is selected and the edit flag is off, the
\* code, type, format and preview of the page are those of the selected
\* record.
C21_ViewingShowsRecord ==
    (selectedDiagram # Null /\ ~isEditing) =>
        /\ code = selectedDiagram.code
        /\ diagramType = selectedDiagram.diagramType
        /\ format = selectedDiagram.format
        /\ generatedImage = selectedDiagram.imageData

\* C28: when the render of a Generate succeeds after the preview has been
\* set by a later action (the preview is no longer the one the handler saw
\* when it ran), the preview stays as that action left it.
C28_LateRenderKeepsPreview ==
    [][\A m \in DOMAIN inflight :
          (/\ handleGenerate_settled(m, TRUE)
           /\ generatedImage # inflight[m].generatedImage) =>
              generatedImage' = generatedImage
      ]_vars

\* The create requests the step adds to the calls of the page
NewSaveCalls ==
    {m \in DOMAIN inflight' :
        /\ inflight'[m].kind = "save"
        /\ (m \in DOMAIN inflight => inflight[m].kind # "save")}

\* C22: a create request is sent only by Save with a preview present and a
\* name that is not empty after trimming, and carries that name and the data
\* of that preview; a Save with a blank name reports an error and sends
\* nothing; every diagram a create request of the page stores has a name
\* that is not blank and image data.
C22_SaveNeedsPreviewAndName ==
    [][/\ \A m \in NewSaveCalls :
             /\ handleSaveDiagram
             /\ ~Falsy(generatedImage)
             /\ trim(diagramName) # ""
             /\ inflight'[m].body.name = diagramName
             /\ inflight'[m].body.imageData = fetch_readAsDataURL(generatedImage)
       /\ (handleSaveDiagram /\ (Falsy(generatedImage) \/ trim(diagramName) = "")) =>
             /\ toast'.title = "Error"
             /\ inflight' = inflight
       /\ \A m \in DOMAIN inflight :
             (SaveHandled(m) /\ res_ok(res')) =>
                 /\ trim(diagrams'[res'.body.id].name) # ""
                 /\ ~Falsy(diagrams'[res'.body.id].imageData)
      ]_vars

\* Save has been pressed with a preview and a name of white space: the error
\* is shown and no create request is in flight.
C22_Witness ==
    /\ toast = Toast("Error", "Please enter a diagram name")
    /\ diagramName = Str(" ")
    /\ ~Falsy(generatedImage)
    /\ MutationCalls(inflight) = {}

\* Button "Save Diagram" is rendered and enabled.
SaveAvailable ==
    /\ page = "project-detail"
    /\ ~isEditing
    /\ ~(Falsy(generatedImage) \/ saveMutation # 0 \/ selectedDiagram # Null)

\* C30: Save is available only with a preview that a render call of the
\* page produced, never with one hydrated from the imageData of a stored
\* diagram, and every create request carries the image of such a render.
C30_SaveOnlyRenderedPreview ==
    /\ SaveAvailable => startsWith_blob(generatedImage)
    /\ \A m \in DOMAIN inflight :
          inflight[m].kind = "save" =>
              inflight[m].body.imageData \in {readAsDataURL(n) : n \in 1..rendersIssued}

\* A render call of Generate is outstanding.
GenerateOutstanding ==
    \E m \in Renders : inflight[m].by \in {"handleGenerate", "generator_handleGenerate"}

\* C29: isGenerating is true exactly while a render call of Generate is
\* outstanding; the completion of such a call, with success or with failure,
\* leaves it false; and whenever it is true it becomes false again.
C29_IsGeneratingTracksRender ==
    /\ [](isGenerating <=> GenerateOutstanding)
    /\ [][\A m \in DOMAIN inflight, ok \in BOOLEAN :
             (handleGenerate_settled(m, ok) \/ generator_handleGenerate_settled(m, ok)) =>
                 isGenerating' = FALSE
         ]_vars
    /\ (isGenerating ~> ~isGenerating)

\* On project-detail a render of Generate has failed: the flag is off and
\* Generate is enabled again.
C29_Witness ==
    /\ page = "project-detail"
    /\ toast = Toast("Error", "Failed to generate diagram")
    /\ rendersIssued = 1 /\ Renders = {}
    /\ ~isGenerating
    /\ selectedDiagram = Null

====
